---- MODULE Spec2Model ----
(***************************************************************************)
(* A model of the reducer crate: the synchronous Store (reduce, then       *)
(* react), Store::subscribe, composite reactors (slices, arrays, tuples)   *)
(* and the Store turned into a task fed by cloneable dispatchers through   *)
(* a zero-buffer futures mpsc channel (Store::into_task /                  *)
(* spawn_dispatcher); beside it, the copy-on-write reducers (Arc, Rc),     *)
(* composite reducers, the Store as a sink, reactors adapted from sinks,   *)
(* std::sync::mpsc::Sender as a reactor, and AsyncStore.                   *)
(***************************************************************************)
EXTENDS Integers, Sequences, FiniteSets, TLC

VARIABLES
    s0,        \* the state the Store was constructed with
    state,     \* Store::state
    calls,     \* the states the reactor was called with, in call order
    outs,      \* the results the reactor returned, in call order
    acts,      \* the items [id, a] the Store has reduced, in order
    ret,       \* what the last synchronous Store::dispatch returned
    rets,      \* per dispatch call on a handle, in call order: the handle and
               \* what the call returned ("pending" while it runs)
    hs,        \* the dispatcher handles (AsyncDispatcher<SinkMapErr<Sender>>)
    mq,        \* the channel's message queue
    open,      \* the channel's is_open flag
    nmsg,      \* the channel's num_messages counter
    parkedq,   \* the channel's queue of parked sender tasks
    tpc,       \* where the task (the Forward future) is
    buffered,  \* Forward::buffered_item
    result,    \* the output of the task's future
    single,    \* TRUE when one logical producer uses the handles in turn
    rh,        \* the completion handle of the task: "held", "dropped" or
               \* "forgotten" (RemoteHandle::forget)
    cret,      \* what the last block_on(dispatcher.close()) returned
    reactor,   \* Store::reactor: the identity of the installed reactor
    notified,  \* the identity of the reactor that received each call
    subret,    \* what each Store::subscribe returned, in call order
    members,   \* a composite reactor: the result each member returns
    invoked,   \* the members a react call on the composite has invoked
    fret,      \* what the react call on the composite returned
    heap,      \* Arc / Rc allocations: the value each one holds (None once
               \* the value was moved out)
    arc,       \* the allocation the copy-on-write reducer points to
    snaps,     \* the clones taken of the Arc / Rc: the allocation each holds,
               \* the value seen when it was taken, and whether it is alive
    weaks,      \* the allocations a Weak pointer points to
    rops,      \* the calls made on the sink of the Store's reactor: the method
               \* and what it returned, in call order
    polled,     \* the Sink method last called on the Store and what it returned
    withf,     \* AsyncReactor::with: "to_owned" (from_sink) or "to_string"
    rpc,       \* where a react call on the AsyncReactor is
    rarg,      \* the state the react call in progress was given
    sunk,      \* the items handed to the wrapped sink's start_send, in order
    flushed,   \* how many of them a completed flush of the sink covers
    slast,     \* what the last call on the wrapped sink returned
    rret,       \* the react calls that have returned: the state and the result
    tuple,     \* a composite reducer: the value of each member, in order
    tlog,      \* the reduce calls made on members: the member and the action
    tsent,      \* the actions reduced on the composite, in order
    aq,        \* AsyncStore: the unbounded channel of (action, oneshot sender)
    anh,       \* AsyncStore: the number of live AsyncStoreHandles
    prom,      \* AsyncStore: the promise returned by each dispatch call
    arun,       \* AsyncStore: "running" while run_async loops, then "stopped"
    chq,       \* std mpsc channel: the states sent and not yet received
    rxalive,   \* std mpsc channel: FALSE once the Receiver is dropped
    recvd,      \* the states the Receiver has received, in order
    opt        \* an Option used as the subscriber: "None" or "Some"

vars == <<s0, state, calls, outs, acts, ret, rets, hs, mq, open, nmsg,
          parkedq, tpc, buffered, result, single, rh, cret, reactor, notified,
          subret, members, invoked, fret, heap, arc, snaps, weaks,
          rops, polled,
          withf, rpc, rarg, sunk, flushed, slast, rret,
          tuple, tlog, tsent,
          aq, anh, prom, arun,
          chq, rxalive, recvd,
          opt>>

chanVars == <<rets, hs, mq, open, nmsg, parkedq, tpc, buffered, result, single, rh, cret>>

subVars == <<reactor, notified, subret>>

fanVars == <<members, invoked, fret>>

cowVars == <<heap, arc, snaps, weaks>>

sinkVars == <<rops, polled>>

arVars == <<withf, rpc, rarg, sunk, flushed, slast, rret>>

tupVars == <<tuple, tlog, tsent>>

asVars == <<aq, anh, prom, arun>>

mpVars == <<chq, rxalive, recvd>>

optVars == <<opt>>

\* the variables of the models that stand beside the Store
auxVars == <<cowVars, sinkVars, arVars, tupVars, asVars, mpVars, optVars>>

\* for each of these models, the variables of the others
notCow == <<sinkVars, arVars, tupVars, asVars, mpVars, optVars>>
notSink == <<cowVars, arVars, tupVars, asVars, mpVars, optVars>>
notAsyncReactor == <<cowVars, sinkVars, tupVars, asVars, mpVars, optVars>>
notTuple == <<cowVars, sinkVars, arVars, asVars, mpVars, optVars>>
notAsync == <<cowVars, sinkVars, arVars, tupVars, mpVars, optVars>>
notMpsc == <<cowVars, sinkVars, arVars, tupVars, asVars, optVars>>
notOption == <<cowVars, sinkVars, arVars, tupVars, asVars, mpVars>>

----------------------------------------------------------------------------
(* Bounds *)

MaxSteps == 4      \* synchronous dispatches per behaviour
MaxDispatch == 2   \* dispatch calls made on handles per behaviour
MaxHandles == 2    \* handles (the first one and its clones) per behaviour
MaxSubs == 2       \* Store::subscribe calls per behaviour
MaxMembers == 3    \* members of a composite reactor
MaxCow == 3        \* reduce calls on the copy-on-write reducer per behaviour
MaxSnaps == 2      \* clones taken of the copy-on-write reducer per behaviour
MaxSinkOps == 4    \* Sink methods called on the Store per behaviour
MaxReacts == 3     \* react calls on a reactor adapted from a sink per behaviour
MaxReduce == 3     \* reduce calls on a composite reducer per behaviour
MaxAsync == 3      \* dispatch calls on AsyncStoreHandles per behaviour
MaxSend == 3       \* dispatches on a Store whose reactor is an mpsc Sender

----------------------------------------------------------------------------
(* Values *)

Add(x) == [op |-> "Add", x |-> x]
Sub(x) == [op |-> "Sub", x |-> x]
Mul(x) == [op |-> "Mul", x |-> x]
Div(x) == [op |-> "Div", x |-> x]

\* The actions of the Calculator example.
Actions == {Add(5), Mul(3), Sub(1), Div(7)}

\* The actions sent to the task: two that do not commute.
TaskActions == {Add(5), Mul(3)}

InitStates == {0, 2}

Ok == [ok |-> TRUE, e |-> 0]
Err(e) == [ok |-> FALSE, e |-> e]
Errors == {1, 2}
Results == {Ok} \cup {Err(e) : e \in Errors}

None == [none |-> TRUE]

\* Poll::Pending, and what a poll of a sink returns: Pending or Ready(result)
Pending == [pending |-> TRUE]
Polls == {Pending} \cup Results

\* An action together with the number of the dispatch call that carries it.
Item(id, a) == [id |-> id, a |-> a]

\* i32 division truncates toward zero.
TruncDiv(a, b) ==
    IF (a >= 0) = (b >= 0)
    THEN (IF a >= 0 THEN a ELSE -a) \div (IF b >= 0 THEN b ELSE -b)
    ELSE -((IF a >= 0 THEN a ELSE -a) \div (IF b >= 0 THEN b ELSE -b))

\* A reducer that applies an operation other than the one the action names.
ReduceWrongOp(s, a) ==
    CASE a.op = "Add" -> s + a.x
      [] a.op = "Sub" -> s + a.x
      [] a.op = "Mul" -> s * a.x
      [] a.op = "Div" -> TruncDiv(s, a.x)

\* impl Reducer<Action> for Calculator
Reduce(s, a) ==
    CASE a.op = "Add" -> s + a.x
      [] a.op = "Sub" -> s - a.x
      [] a.op = "Mul" -> s * a.x
      [] a.op = "Div" -> TruncDiv(s, a.x)

\* The mock reactor: records the state it is called with and returns the
\* result r it was set up to return for it.
React(cs, s, r) == [calls |-> Append(cs, s), out |-> r]

\* A dispatch that notifies the reactor before reducing (stale state).
StoreDispatchStale(st, cs, a, r) ==
    LET rr == React(cs, st, r)
    IN  [state |-> Reduce(st, a), calls |-> rr.calls, out |-> rr.out, ret |-> rr.out]

\* A dispatch that restores the previous state when the reactor fails.
StoreDispatchRollback(st, cs, a, r) ==
    LET s2 == Reduce(st, a)
        rr == React(cs, s2, r)
    IN  [state |-> IF rr.out.ok THEN s2 ELSE st,
         calls |-> rr.calls, out |-> rr.out, ret |-> rr.out]

\* A Store that, once its reactor has failed, refuses every later dispatch.
StoreDispatchPoisoned(st, cs, a, r) ==
    IF \E k \in 1..Len(outs) : ~outs[k].ok
    THEN [state |-> st, calls |-> cs, out |-> Err(1), ret |-> Err(1)]
    ELSE LET rr == React(cs, Reduce(st, a), r)
         IN  [state |-> Reduce(st, a), calls |-> rr.calls, out |-> rr.out, ret |-> rr.out]

\* Store::dispatch: self.state.reduce(action); self.reactor.react(&self.state)
StoreDispatch(st, cs, a, r) ==
    LET s2 == Reduce(st, a)
        rr == React(cs, s2, r)
    IN  [state |-> s2, calls |-> rr.calls, out |-> rr.out, ret |-> rr.out]

\* The buffer size of the channel: channel(0).
Buffer == 0

Handles == 1..MaxHandles

\* A handle slot: st is "absent" (not created yet), "open", "closed" (the
\* Sender inside was disconnected by close) or "dropped"; pc is where its
\* dispatch call is; mp is BoundedSenderInner::maybe_parked; ip is
\* SenderTask::is_parked; f tells whether SinkMapErr still holds its mapping
\* closure; id and a are the number and the action of the dispatch call in
\* progress, and at is where the task was when that call began.
NoCall == [id |-> 0, a |-> None, at |-> "-"]
NoHandle == [st |-> "absent", pc |-> "idle", mp |-> FALSE, ip |-> FALSE, f |-> TRUE,
             call |-> NoCall]

----------------------------------------------------------------------------
(* The synchronous Store *)

InitChan ==
    /\ rets = <<>>
    /\ hs = [h \in Handles |-> NoHandle]
    /\ mq = <<>>
    /\ open = TRUE
    /\ nmsg = 0
    /\ parkedq = <<>>
    /\ tpc = "none"
    /\ buffered = None
    /\ result = None
    /\ single = TRUE
    /\ rh = "held"
    /\ cret = "none"

\* Store::new(state, reactor): the first reactor is installed.
InitSub ==
    /\ reactor = 1
    /\ notified = <<>>
    /\ subret = <<>>

\* No composite reactor is in use.
InitFan ==
    /\ members = <<>>
    /\ invoked = <<>>
    /\ fret = None

\* A value of the mock reducer: the actions it has reduced and its
\* generation, which Clone increments.
Mock(cs, g) == [calls |-> cs, gen |-> g]

\* Arc::new(Mock::default()): one allocation, one strong reference.
InitCow ==
    /\ heap = <<Mock(<<>>, 0)>>
    /\ arc = 1
    /\ snaps = <<>>
    /\ weaks = {}

\* No Sink method has been called on the Store.
InitSink ==
    /\ rops = <<>>
    /\ polled = None

\* Reactor::from_sink(sink): no react call has been made.
InitAsyncReactor ==
    /\ withf = "to_owned"
    /\ rpc = "idle"
    /\ rarg = 0
    /\ sunk = <<>>
    /\ flushed = 0
    /\ slast = None
    /\ rret = <<>>

\* No composite reducer is in use.
InitTuple ==
    /\ tuple = <<>>
    /\ tlog = <<>>
    /\ tsent = <<>>

\* AsyncStore::spawn: an empty unbounded channel, one handle, the loop
\* running.
InitAsync ==
    /\ aq = <<>>
    /\ anh = 1
    /\ prom = <<>>
    /\ arun = "running"

\* std::sync::mpsc::channel(): empty, both ends alive.
InitMpsc ==
    /\ chq = <<>>
    /\ rxalive = TRUE
    /\ recvd = <<>>

\* Store::new(state, None)
InitOption == opt = "None"

InitAux == InitCow /\ InitSink /\ InitAsyncReactor /\ InitTuple /\ InitAsync /\ InitMpsc /\ InitOption

\* Store::new(state, reactor)
InitStore ==
    /\ s0 \in InitStates
    /\ state = s0
    /\ calls = <<>>
    /\ outs = <<>>
    /\ acts = <<>>
    /\ ret = None
    /\ InitChan
    /\ InitSub
    /\ InitFan
    /\ InitAux

\* One call of Store::dispatch(a) on a reactor that returns r.
Dispatch(a, r) ==
    /\ Len(acts) < MaxSteps
    /\ LET d == StoreDispatch(state, calls, a, r)
       IN  /\ state' = d.state
           /\ calls' = d.calls
           /\ outs' = Append(outs, d.out)
           /\ ret' = d.ret
    /\ acts' = Append(acts, Item(Len(acts) + 1, a))
    /\ notified' = Append(notified, reactor)
    /\ UNCHANGED <<s0, chanVars, reactor, subret, fanVars, auxVars>>

NextStore == \E a \in Actions, r \in Results : Dispatch(a, r)

SpecStore == InitStore /\ [][NextStore]_vars

----------------------------------------------------------------------------
(* Store::subscribe *)

\* A subscribe that hands back the reactor it was given.
StoreSubscribeReturnsNew(cur, new) == [reactor |-> new, ret |-> new]

\* Store::subscribe: replace(&mut self.reactor, reactor.into())
StoreSubscribe(cur, new) == [reactor |-> new, ret |-> cur]

\* One call of Store::subscribe; the reactor moved into the Store is a new
\* object, numbered after the ones the Store has held so far.
Subscribe ==
    /\ Len(subret) < MaxSubs
    /\ LET d == StoreSubscribe(reactor, Len(subret) + 2)
       IN  /\ reactor' = d.reactor
           /\ subret' = Append(subret, d.ret)
    /\ UNCHANGED <<s0, state, calls, outs, acts, ret, notified, chanVars, fanVars, auxVars>>

NextSubscribe ==
    \/ \E a \in TaskActions, r \in Results : Dispatch(a, r)
    \/ Subscribe

SpecSubscribe == InitStore /\ [][NextSubscribe]_vars

----------------------------------------------------------------------------
(* Composite reactors: slices, arrays and tuples of reactors *)

\* The composite reactors of up to MaxMembers members, each member given by
\* the result it returns.
Composites == UNION {[1..n -> Results] : n \in 0..MaxMembers}

\* A composite on which react has not been called yet.
InitComposite ==
    /\ s0 \in InitStates
    /\ state = s0
    /\ calls = <<>>
    /\ outs = <<>>
    /\ acts = <<>>
    /\ ret = None
    /\ InitChan
    /\ InitSub
    /\ InitAux
    /\ members \in Composites
    /\ invoked = <<>>
    /\ fret = None

\* A ? that swallows the error and goes on.
TryIgnore(r) == None

\* A ? that returns an error of its own instead of the member's.
TryMapsError(r) == IF r.ok THEN None ELSE Err(1)

\* reactor.react(state)?: an error is returned at once, as it is.
Try(r) == IF r.ok THEN None ELSE r

\* impl Reactor<S> for [T] (arrays delegate to it, tuples unroll it): one
\* turn of the loop `for reactor in self { reactor.react(state)?; }`, or the
\* final Ok(()) when no member is left.
ReactNext ==
    /\ fret = None
    /\ LET k == Len(invoked) + 1
       IN  IF k > Len(members)
           THEN /\ fret' = Ok
                /\ UNCHANGED <<calls, outs, invoked>>
           ELSE LET rr == React(calls, state, members[k])
                IN  /\ calls' = rr.calls
                    /\ outs' = Append(outs, rr.out)
                    /\ invoked' = Append(invoked, k)
                    /\ fret' = Try(rr.out)
    /\ UNCHANGED <<s0, state, acts, ret, chanVars, subVars, members, auxVars>>

NextComposite == ReactNext

SpecComposite == InitComposite /\ [][NextComposite]_vars

----------------------------------------------------------------------------
(* The copy-on-write reducers: impl Reducer<A> for Arc<T> and Rc<T> *)

\* Store::new(0, reactor), with everything beside it as constructed
InitZero == InitStore /\ s0 = 0

\* the variables of the Store, which the models beside it leave alone
baseVars == <<s0, state, calls, outs, acts, ret, chanVars, subVars, fanVars>>

\* Arc::strong_count: the adapter's own reference, if it points to
\* allocation a, and the live clones that hold a.
Strong(c, sn, a) ==
    (IF c = a THEN 1 ELSE 0)
      + Cardinality({i \in 1..Len(sn) : sn[i].live /\ sn[i].at = a})

\* A make_mut that also clones when only Weak pointers share the value.
MakeMutCloneOnWeak(strong, weak) ==
    IF strong > 1 \/ weak THEN "clone" ELSE "inplace"

\* A make_mut that clones on every call.
MakeMutAlwaysClone(strong, weak) == "clone"

\* A make_mut that never clones.
MakeMutNeverClone(strong, weak) == "inplace"

\* Arc::make_mut / Rc::make_mut: with other strong references the value is
\* cloned into a new allocation; with none but with Weak pointers it is
\* moved into a new allocation, not cloned; otherwise it is used in place.
MakeMut(strong, weak) ==
    IF strong > 1 THEN "clone"
    ELSE IF weak THEN "move"
    ELSE "inplace"

\* impl Clone for TaggedMock: the calls are copied, the generation grows.
MockClone(v) == Mock(v.calls, v.gen + 1)

\* impl Reducer for TaggedMock: the action is recorded.
MockReduce(v, a) == Mock(Append(v.calls, a), v.gen)

\* reduce(&mut reducer, a): Arc::make_mut(self).reduce(action)
CowReduce(a) ==
    /\ Len(heap[arc].calls) < MaxCow
    /\ LET how == MakeMut(Strong(arc, snaps, arc), arc \in weaks)
       IN  CASE how = "clone" ->
                  /\ heap' = Append(heap, MockReduce(MockClone(heap[arc]), a))
                  /\ arc' = Len(heap) + 1
             [] how = "move" ->
                  /\ heap' = Append([heap EXCEPT ![arc] = None], MockReduce(heap[arc], a))
                  /\ arc' = Len(heap) + 1
             [] how = "inplace" ->
                  /\ heap' = [heap EXCEPT ![arc] = MockReduce(heap[arc], a)]
                  /\ arc' = arc
    /\ UNCHANGED <<baseVars, notCow, snaps, weaks>>

\* let other = reducer.clone(): one more strong reference to the allocation.
TakeSnapshot ==
    /\ Len(snaps) < MaxSnaps
    /\ snaps' = Append(snaps, [at |-> arc, seen |-> heap[arc], live |-> TRUE])
    /\ UNCHANGED <<baseVars, notCow, heap, arc, weaks>>

\* drop(other)
DropSnapshot(i) ==
    /\ i \in 1..Len(snaps)
    /\ snaps[i].live
    /\ snaps' = [snaps EXCEPT ![i].live = FALSE]
    /\ UNCHANGED <<baseVars, notCow, heap, arc, weaks>>

\* Arc::downgrade(&reducer): a Weak pointer to the current allocation.
Downgrade ==
    /\ arc \notin weaks
    /\ weaks' = weaks \cup {arc}
    /\ UNCHANGED <<baseVars, notCow, heap, arc, snaps>>

NextCow ==
    \/ \E a \in TaskActions : CowReduce(a)
    \/ TakeSnapshot
    \/ \E i \in 1..MaxSnaps : DropSnapshot(i)
    \/ Downgrade

SpecCow == InitZero /\ [][NextCow]_vars

----------------------------------------------------------------------------
(* The Store as a task: Store::into_task / spawn_dispatcher              *)

\* A Store::start_send that reduces and does not tell the reactor.
StoreStartSendSilent(st, cs, a, r) ==
    [state |-> Reduce(st, a), calls |-> cs, out |-> r]

\* A Store::start_send that hands the reactor the state before reducing.
StoreStartSendStale(st, cs, a, r) ==
    LET rr == React(cs, st, r)
    IN  [state |-> Reduce(st, a), calls |-> rr.calls, out |-> rr.out]

\* impl Sink<A> for Store: start_send reduces, then hands the new state to
\* the reactor's sink (AsyncReactor::start_send, which sends with(state)).
StoreStartSend(st, cs, a, r) ==
    LET s2 == Reduce(st, a)
        rr == React(cs, s2, r)
    IN  [state |-> s2, calls |-> rr.calls, out |-> rr.out]

\* A channel that counts the first sender only, not its clones.
NumSendersOne == Cardinality({h \in {1} : hs[h].st = "open"})

\* BoundedInner::num_senders
NumSenders == Cardinality({h \in Handles : hs[h].st = "open"})

\* A sender that closes the channel although other senders are left.
ClosesChannelAny(n) == n >= 1

\* Drop for BoundedSenderInner: the last sender closes the channel.
ClosesChannel(n) == n = 1

\* A receiver that reports the end of the stream whenever its queue is empty.
RecvNextEndsWhenEmpty(q, isopen, n) == IF q # <<>> THEN "item" ELSE "end"

\* Receiver::next_message: a queued message if there is one; the end of the
\* stream once the channel is closed and holds no message; pending otherwise.
RecvNext(q, isopen, n) ==
    IF q # <<>> THEN "item"
    ELSE IF ~isopen /\ n = 0 THEN "end"
    ELSE "pending"

\* A Forward that keeps polling the stream after the sink failed.
ForwardAfterSendGoesOn(r) == "recv"

\* A Forward that completes after the first item it has sent.
ForwardAfterSendStops(r) == "done"

\* Forward::poll: start_send(item)? returns the sink's error from the future;
\* after a successful start_send the loop polls the stream again.
ForwardAfterSend(r) == IF r.ok THEN "recv" ELSE "done"

\* A flush that does not wait for the sender to be unparked.
FlushReadyAlways(isopen, h) == TRUE

\* A flush that stays pending once the channel is disconnected.
FlushReadyOpenOnly(isopen, h) == isopen /\ ~(h.mp /\ h.ip)

\* Sender::poll_flush: ready when the channel is disconnected or when this
\* sender is no longer parked.
FlushReady(isopen, h) == (~isopen) \/ ~(h.mp /\ h.ip)

\* A task that can be cancelled whether or not its handle was forgotten.
CancellableAlways(h) == TRUE

\* Remote::poll bails out when its RemoteHandle has been dropped and forget
\* was not called (keep_running is false): only a handle still held can be
\* dropped; a forgotten one never cancels the task.
Cancellable(h) == h = "held"

RxAlive == tpc \in {"recv", "send", "done"}

Idle(h) == hs[h].pc = "idle"

\* store.into_task(): channel(0), the Forward future and the first dispatcher.
Init ==
    /\ s0 = 0
    /\ state = s0
    /\ calls = <<>>
    /\ outs = <<>>
    /\ acts = <<>>
    /\ ret = None
    /\ rets = <<>>
    /\ hs = [h \in Handles |-> IF h = 1 THEN [NoHandle EXCEPT !.st = "open"] ELSE NoHandle]
    /\ mq = <<>>
    /\ open = TRUE
    /\ nmsg = 0
    /\ parkedq = <<>>
    /\ tpc = "recv"
    /\ buffered = None
    /\ result = None
    /\ single \in BOOLEAN
    /\ rh = "held"
    /\ cret = "none"
    /\ InitSub
    /\ InitFan
    /\ InitAux

storeVars == <<s0, state, calls, outs, acts, ret, subVars, fanVars, auxVars>>
taskVars == <<tpc, buffered, result>>

\* The first handle slot not used yet (0 when there is none).
FreeSlot ==
    IF \E g \in Handles : hs[g].st = "absent"
    THEN CHOOSE g \in Handles : hs[g].st = "absent" /\ \A k \in 1..(g - 1) : hs[k].st # "absent"
    ELSE 0

\* dispatcher.clone(): a new Sender on the same channel, or another
\* disconnected Sender when h was closed; the mapping closure is cloned too.
Clone(h) ==
    /\ hs[h].st \in {"open", "closed"}
    /\ Idle(h)
    /\ FreeSlot # 0
    /\ hs' = [hs EXCEPT ![FreeSlot] = [NoHandle EXCEPT !.st = hs[h].st, !.f = hs[h].f]]
    /\ UNCHANGED <<storeVars, taskVars, rets, mq, open, nmsg, parkedq, single, rh, cret>>

\* drop(dispatcher)
DropHandle(h) ==
    /\ hs[h].st \in {"open", "closed"}
    /\ Idle(h)
    /\ hs' = [hs EXCEPT ![h].st = "dropped"]
    /\ open' = IF hs[h].st = "open" /\ ClosesChannel(NumSenders) THEN FALSE ELSE open
    /\ UNCHANGED <<storeVars, taskVars, rets, mq, nmsg, parkedq, single, rh, cret>>

\* A close that fails, as a send does, once the receiver is gone.
CloseRetChecksReceiver(alive) == IF alive THEN "Ok" ELSE "Terminated"

\* Sender::poll_close: self.disconnect(); Poll::Ready(Ok(())), whatever the
\* state of the receiver; SinkMapErr has no error to map.
CloseRet(alive) == "Ok"

\* block_on(dispatcher.close()): Sender::poll_close disconnects this sender.
CloseHandle(h) ==
    /\ hs[h].st = "open"
    /\ Idle(h)
    /\ hs' = [hs EXCEPT ![h].st = "closed"]
    /\ open' = IF ClosesChannel(NumSenders) THEN FALSE ELSE open
    /\ cret' = CloseRet(RxAlive)
    /\ UNCHANGED <<storeVars, taskVars, rets, mq, nmsg, parkedq, single, rh>>

\* Whether the task is running, has completed, or has been dropped.
Phase == IF tpc \in {"recv", "send"} THEN "running" ELSE tpc

\* A dispatch call on handle h that returned v ("pending": not yet).
Ret(h, v) == [h |-> h, v |-> v]

\* The dispatch call number id on h ends with an error of the Sender:
\* SinkMapErr maps it to Terminated with its closure, which it takes out of
\* its Option; with the closure already taken the call panics instead.
Fail(h, id, rs) ==
    /\ rets' = [rs EXCEPT ![id] = Ret(h, IF hs[h].f THEN "Terminated" ELSE "Panicked")]
    /\ hs' = [hs EXCEPT ![h].pc = "idle", ![h].call = NoCall, ![h].f = FALSE]

\* dispatcher.dispatch(a): block_on(self.send(a)) starts with poll_ready. A
\* disconnected sender or a closed channel is an error; a parked sender
\* waits until the receiver unparks it.
BeginDispatch(h, a) ==
    /\ hs[h].st \in {"open", "closed"}
    /\ Idle(h)
    /\ Len(rets) < MaxDispatch
    /\ single => \A g \in Handles : Idle(g)
    /\ IF hs[h].st = "closed" \/ ~open
       THEN Fail(h, Len(rets) + 1, Append(rets, Ret(h, "pending")))
       ELSE /\ ~(hs[h].mp /\ hs[h].ip)
            /\ hs' = [hs EXCEPT ![h].mp = FALSE, ![h].pc = "start",
                                ![h].call = [id |-> Len(rets) + 1, a |-> a, at |-> Phase]]
            /\ rets' = Append(rets, Ret(h, "pending"))
    /\ UNCHANGED <<storeVars, taskVars, mq, open, nmsg, parkedq, single, rh, cret>>

\* Send: start_send, do_send_b: inc_num_messages fails on a closed channel;
\* otherwise the sender parks itself (BoundedSenderInner::park) when the
\* count exceeds the buffer.
StartSend(h) ==
    /\ hs[h].pc = "start"
    /\ IF ~open
       THEN Fail(h, hs[h].call.id, rets) /\ UNCHANGED <<nmsg, parkedq>>
       ELSE /\ nmsg' = nmsg + 1
            /\ IF nmsg + 1 > Buffer
               THEN /\ hs' = [hs EXCEPT ![h].ip = TRUE, ![h].mp = TRUE, ![h].pc = "push"]
                    /\ parkedq' = Append(parkedq, h)
               ELSE /\ hs' = [hs EXCEPT ![h].pc = "push"]
                    /\ parkedq' = parkedq
            /\ rets' = rets
    /\ UNCHANGED <<storeVars, taskVars, mq, open, single, rh, cret>>

\* queue_push_and_signal; a receiver that is being dropped drains the message.
Push(h) ==
    /\ hs[h].pc = "push"
    /\ IF RxAlive
       THEN mq' = Append(mq, Item(hs[h].call.id, hs[h].call.a)) /\ nmsg' = nmsg
       ELSE mq' = mq /\ nmsg' = nmsg - 1
    /\ hs' = [hs EXCEPT ![h].pc = "flush"]
    /\ UNCHANGED <<storeVars, taskVars, rets, open, parkedq, single, rh, cret>>

\* Send: poll_flush; dispatch returns Ok(()).
Flush(h) ==
    /\ hs[h].pc = "flush"
    /\ FlushReady(open, hs[h])
    /\ rets' = [rets EXCEPT ![hs[h].call.id] = Ret(h, "Ok")]
    /\ hs' = [hs EXCEPT ![h].pc = "idle", ![h].call = NoCall,
                        ![h].mp = IF open THEN FALSE ELSE hs[h].mp]
    /\ UNCHANGED <<storeVars, taskVars, mq, open, nmsg, parkedq, single, rh, cret>>

\* Forward::poll, stream side: rx.poll_next. An item is kept in
\* buffered_item (the receiver unparks one sender and decrements the count);
\* at the end of the stream the sink is closed and the future is ready.
TaskRecv ==
    /\ tpc = "recv"
    /\ LET nxt == RecvNext(mq, open, nmsg)
       IN  \/ /\ nxt = "item"
              /\ buffered' = Head(mq)
              /\ mq' = Tail(mq)
              /\ nmsg' = nmsg - 1
              /\ IF parkedq # <<>>
                 THEN /\ hs' = [hs EXCEPT ![Head(parkedq)].ip = FALSE]
                      /\ parkedq' = Tail(parkedq)
                 ELSE UNCHANGED <<hs, parkedq>>
              /\ tpc' = "send"
              /\ UNCHANGED result
           \/ /\ nxt = "end"
              /\ result' = Ok
              /\ tpc' = "done"
              /\ UNCHANGED <<buffered, mq, nmsg, hs, parkedq>>
    /\ UNCHANGED <<storeVars, rets, open, single, rh, cret>>

\* Forward::poll, sink side: poll_ready and start_send(buffered_item) on the
\* Store; the reactor returns r.
TaskSend(r) ==
    /\ tpc = "send"
    /\ LET d == StoreStartSend(state, calls, buffered.a, r)
       IN  /\ state' = d.state
           /\ calls' = d.calls
           /\ outs' = Append(outs, d.out)
           /\ tpc' = ForwardAfterSend(d.out)
           /\ result' = IF d.out.ok THEN result ELSE d.out
    /\ acts' = Append(acts, buffered)
    /\ buffered' = None
    /\ UNCHANGED <<s0, ret, rets, hs, mq, open, nmsg, parkedq, single, rh, cret, subVars, fanVars, auxVars>>

\* The future of the task is dropped: by the executor once it has completed,
\* or, cancelled, between two polls of the stream: the owner of the future
\* returned by into_task dropped it, or the RemoteHandle returned by
\* spawn_dispatcher was dropped and Remote::poll bailed out. Drop for Receiver
\* closes the channel, unparks every sender and drains the queue.
TaskDrop ==
    /\ tpc = "done" \/ (tpc = "recv" /\ Cancellable(rh))
    /\ rh' = IF tpc = "recv" /\ rh = "held" THEN "dropped" ELSE rh
    /\ tpc' = "dropped"
    /\ open' = FALSE
    /\ hs' = [h \in Handles |-> [hs[h] EXCEPT !.ip = FALSE]]
    /\ parkedq' = <<>>
    /\ mq' = <<>>
    /\ nmsg' = nmsg - Len(mq)
    /\ buffered' = None
    /\ UNCHANGED <<storeVars, result, rets, single, cret>>

Next ==
    \/ \E h \in Handles : Clone(h)
    \/ \E h \in Handles : DropHandle(h)
    \/ \E h \in Handles : CloseHandle(h)
    \/ \E h \in Handles, a \in TaskActions : BeginDispatch(h, a)
    \/ \E h \in Handles : StartSend(h)
    \/ \E h \in Handles : Push(h)
    \/ \E h \in Handles : Flush(h)
    \/ TaskRecv
    \/ \E r \in Results : TaskSend(r)
    \/ TaskDrop

Spec == Init /\ [][Next]_vars

\* handle.forget(): the task is detached from its RemoteHandle.
ForgetCompletion ==
    /\ rh = "held"
    /\ tpc \in {"recv", "send"}
    /\ rh' = "forgotten"
    /\ UNCHANGED <<storeVars, taskVars, rets, hs, mq, open, nmsg, parkedq, single, cret>>

\* executor.spawn_dispatcher(store): the same channel and Forward future as
\* into_task, spawned behind a RemoteHandle that can be forgotten.
NextSpawn == Next \/ ForgetCompletion

\* The spawned task is driven by one producer, which uses its handles in turn.
InitSpawn == Init /\ single

SpecSpawn == InitSpawn /\ [][NextSpawn]_vars

\* The executor polls the task whenever it has been woken: a task that can
\* take a step eventually takes it.
FairSpec == Spec /\ WF_vars(TaskRecv) /\ WF_vars(\E r \in Results : TaskSend(r))

\* Besides, the thread of each producer runs: block_on polls the send
\* whenever it can make progress; and the executor drops the task's future
\* once it has completed.
FairSpecProducers ==
    /\ FairSpec
    /\ WF_vars(tpc = "done" /\ TaskDrop)
    /\ \A h \in Handles : WF_vars(StartSend(h) \/ Push(h) \/ Flush(h))

----------------------------------------------------------------------------
(* The Store as a sink of actions: impl Sink<A> for Store *)

\* A Store that answers a poll itself, always with Ready(Ok(())).
StorePollReady(p) == Ok

\* Store::poll_ready, poll_flush and poll_close return what the same method
\* of the reactor's sink returns.
StorePoll(p) == p

\* A poll of the Store: the same method of the reactor's sink is called and
\* returns p.
SinkPoll(op, p) ==
    /\ Len(rops) < MaxSinkOps
    /\ rops' = Append(rops, [op |-> op, res |-> p])
    /\ polled' = [op |-> op, res |-> StorePoll(p)]
    /\ UNCHANGED <<baseVars, notSink>>

SinkPollReady(p) == SinkPoll("poll_ready", p)

SinkPollFlush(p) == SinkPoll("poll_flush", p)

SinkPollClose(p) == SinkPoll("poll_close", p)

\* Store::start_send(action), called as the Sink contract asks, after
\* poll_ready returned Ready(Ok(())); the reactor's start_send returns r.
SinkStartSend(a, r) ==
    /\ Len(rops) < MaxSinkOps
    /\ polled = [op |-> "poll_ready", res |-> Ok]
    /\ LET d == StoreStartSend(state, calls, a, r)
       IN  /\ state' = d.state
           /\ calls' = d.calls
           /\ outs' = Append(outs, d.out)
           /\ rops' = Append(rops, [op |-> "start_send", res |-> d.out])
           /\ polled' = [op |-> "start_send", res |-> d.out]
    /\ acts' = Append(acts, Item(Len(acts) + 1, a))
    /\ UNCHANGED <<s0, ret, chanVars, subVars, fanVars, notSink>>

NextSink ==
    \/ \E p \in Polls : SinkPollReady(p)
    \/ \E a \in TaskActions, r \in Results : SinkStartSend(a, r)
    \/ \E p \in Polls : SinkPollFlush(p)
    \/ \E p \in Polls : SinkPollClose(p)

SpecSink == InitZero /\ [][NextSink]_vars

----------------------------------------------------------------------------
(* A reactor adapted from a sink: Reactor::from_sink / from_sink_with *)

\* with(state): S::to_owned for from_sink, the caller's function for
\* from_sink_with (ToString::to_string in the documentation's example).
With(f, s) == IF f = "to_owned" THEN s ELSE ToString(s)

\* A send that returns as soon as the sink has taken the item.
AfterStartSendNoFlush(r) == "idle"

\* SinkExt::send after start_send: an error is returned at once, otherwise
\* the sink is flushed.
AfterStartSend(r) == IF r.ok THEN "flush" ELSE "idle"

\* react returns res to its caller.
ReactReturn(res) ==
    /\ rret' = Append(rret, [arg |-> rarg, res |-> res])
    /\ rpc' = "idle"

\* reactor.react(&state): block_on(self.send(state)) starts. The states are
\* numbered by the call, as in the documentation's example.
ReactBegin ==
    /\ rpc = "idle"
    /\ Len(rret) < MaxReacts
    /\ rarg' = Len(rret) + 1
    /\ rpc' = "ready"
    /\ UNCHANGED <<baseVars, notAsyncReactor, withf, sunk, flushed, slast, rret>>

\* Send::poll: the wrapped sink's poll_ready returns p. Pending parks the
\* calling thread in block_on; an error ends the call with no item handed.
ReactPollReady(p) ==
    /\ rpc = "ready"
    /\ slast' = p
    /\ IF p = Pending THEN rpc' = "parked_ready" /\ rret' = rret
       ELSE IF p.ok THEN rpc' = "send" /\ rret' = rret
       ELSE ReactReturn(p)
    /\ UNCHANGED <<baseVars, notAsyncReactor, withf, rarg, sunk, flushed>>

\* AsyncReactor::start_send: sink.start_send(with(state)) returns r.
ReactStartSend(r) ==
    /\ rpc = "send"
    /\ sunk' = Append(sunk, With(withf, rarg))
    /\ slast' = r
    /\ IF AfterStartSend(r) = "flush" THEN rpc' = "flush" /\ rret' = rret
       ELSE ReactReturn(r)
    /\ UNCHANGED <<baseVars, notAsyncReactor, withf, rarg, flushed>>

\* Send::poll: the wrapped sink's poll_flush returns p.
ReactPollFlush(p) ==
    /\ rpc = "flush"
    /\ slast' = p
    /\ IF p = Pending THEN rpc' = "parked_flush" /\ rret' = rret /\ flushed' = flushed
       ELSE IF p.ok THEN ReactReturn(p) /\ flushed' = Len(sunk)
       ELSE ReactReturn(p) /\ flushed' = flushed
    /\ UNCHANGED <<baseVars, notAsyncReactor, withf, rarg, sunk>>

\* The sink wakes the thread parked in block_on, which polls again.
ReactWake ==
    /\ rpc \in {"parked_ready", "parked_flush"}
    /\ rpc' = IF rpc = "parked_ready" THEN "ready" ELSE "flush"
    /\ UNCHANGED <<baseVars, notAsyncReactor, withf, rarg, sunk, flushed, slast, rret>>

NextAsyncReactor ==
    \/ ReactBegin
    \/ \E p \in Polls : ReactPollReady(p)
    \/ \E r \in Results : ReactStartSend(r)
    \/ \E p \in Polls : ReactPollFlush(p)
    \/ ReactWake

\* InitStore with the conversion of from_sink or that of from_sink_with.
InitFromSink ==
    /\ s0 = 0
    /\ state = s0
    /\ calls = <<>>
    /\ outs = <<>>
    /\ acts = <<>>
    /\ ret = None
    /\ InitChan
    /\ InitSub
    /\ InitFan
    /\ InitCow
    /\ InitSink
    /\ InitTuple
    /\ InitAsync
    /\ InitMpsc
    /\ InitOption
    /\ withf \in {"to_owned", "to_string"}
    /\ rpc = "idle"
    /\ rarg = 0
    /\ sunk = <<>>
    /\ flushed = 0
    /\ slast = None
    /\ rret = <<>>

SpecAsyncReactor == InitFromSink /\ [][NextAsyncReactor]_vars

----------------------------------------------------------------------------
(* Composite reducers: impl Reducer<A> for tuples and (deprecated) slices *)

\* A composite that forwards the action to its first member only.
TupleReduceHeadOnly(ms, log, a) ==
    IF ms = <<>> THEN [ms |-> ms, log |-> log]
    ELSE [ms  |-> [ms EXCEPT ![1] = MockReduce(ms[1], a)],
          log |-> Append(log, [m |-> 1, a |-> a])]

RECURSIVE ReduceFrom(_, _, _, _)
\* the members from the i-th on each reduce a clone of the action, in order
ReduceFrom(ms, log, a, i) ==
    IF i > Len(ms) THEN [ms |-> ms, log |-> log]
    ELSE ReduceFrom([ms EXCEPT ![i] = MockReduce(ms[i], a)],
                    Append(log, [m |-> i, a |-> a]), a, i + 1)

\* $($args.reduce(action.clone());)+ and, for slices,
\* for reducer in self { reducer.reduce(action.clone()) }
TupleReduce(ms, log, a) == ReduceFrom(ms, log, a, 1)

\* reduce(&mut reducers, action)
CompositeReduce(a) ==
    /\ Len(tsent) < MaxReduce
    /\ LET d == TupleReduce(tuple, tlog, a)
       IN  /\ tuple' = d.ms
           /\ tlog' = d.log
    /\ tsent' = Append(tsent, a)
    /\ UNCHANGED <<baseVars, notTuple>>

NextTuple == \E a \in Actions : CompositeReduce(a)

\* ($head::default(), $($tail::default(),)*): members that have reduced
\* nothing; a slice may be empty.
InitTupleOf ==
    /\ s0 = 0
    /\ state = s0
    /\ calls = <<>>
    /\ outs = <<>>
    /\ acts = <<>>
    /\ ret = None
    /\ InitChan
    /\ InitSub
    /\ InitFan
    /\ InitCow
    /\ InitSink
    /\ InitAsyncReactor
    /\ InitAsync
    /\ InitMpsc
    /\ InitOption
    /\ tuple \in {[i \in 1..n |-> Mock(<<>>, 0)] : n \in 0..MaxMembers}
    /\ tlog = <<>>
    /\ tsent = <<>>

SpecTuple == InitTupleOf /\ [][NextTuple]_vars

----------------------------------------------------------------------------
(* AsyncStore: spawn, run_async and AsyncStoreHandle::dispatch *)

\* the states of a promise (oneshot::Receiver)
PromPending == [st |-> "pending"]
PromDropped == [st |-> "dropped"]
PromDone(v) == [st |-> "done", val |-> v]

\* A loop that ends when the channel is empty, handles or not.
StreamEndsWhenEmpty(q, n) == q = <<>>

\* actions.next() returns None: the channel is empty and every
\* UnboundedSender has been dropped.
StreamEnds(q, n) == q = <<>> /\ n = 0

\* A loop that stops when the reactor returns an error.
LoopAfterStopsOnErr(r) == IF r.ok THEN "running" ELSE "stopped"

\* run_async after tx.send(..).ok(): the loop goes on, whatever the reactor
\* returned and whether or not the promise took it.
LoopAfter(r) == "running"

\* tx.send(output): a pending promise is fulfilled; a dropped one makes send
\* fail, which .ok() ignores.
OneshotSend(p, v) == IF p = PromPending THEN PromDone(v) ELSE p

\* handle.dispatch(action): a oneshot channel is made, its sender is queued
\* with the action, its receiver returned.
AsDispatch(a) ==
    /\ anh > 0
    /\ Len(prom) < MaxAsync
    /\ aq' = Append(aq, Item(Len(prom) + 1, a))
    /\ prom' = Append(prom, PromPending)
    /\ UNCHANGED <<baseVars, notAsync, anh, arun>>

\* handle.clone()
AsClone ==
    /\ anh > 0
    /\ anh < MaxHandles
    /\ anh' = anh + 1
    /\ UNCHANGED <<baseVars, notAsync, aq, prom, arun>>

\* drop(handle)
AsDropHandle ==
    /\ anh > 0
    /\ anh' = anh - 1
    /\ UNCHANGED <<baseVars, notAsync, aq, prom, arun>>

\* The promise of dispatch call id is dropped before it is fulfilled.
AsDropPromise(id) ==
    /\ id \in 1..Len(prom)
    /\ prom[id] = PromPending
    /\ prom' = [prom EXCEPT ![id] = PromDropped]
    /\ UNCHANGED <<baseVars, notAsync, aq, anh, arun>>

\* One turn of the loop of run_async: the next action is taken from the
\* channel and dispatched on the inner Store, whose reactor returns r, and the
\* output is sent to the promise.
AsRun(r) ==
    /\ arun = "running"
    /\ aq # <<>>
    /\ aq' = Tail(aq)
    /\ LET it == Head(aq)
           d == StoreDispatch(state, calls, it.a, r)
       IN  /\ state' = d.state
           /\ calls' = d.calls
           /\ outs' = Append(outs, d.out)
           /\ acts' = Append(acts, it)
           /\ prom' = [prom EXCEPT ![it.id] = OneshotSend(prom[it.id], d.ret)]
           /\ arun' = LoopAfter(d.out)
    /\ UNCHANGED <<s0, ret, chanVars, subVars, fanVars, notAsync, anh>>

\* The loop ends: actions.next() returned None.
AsStop ==
    /\ arun = "running"
    /\ StreamEnds(aq, anh)
    /\ arun' = "stopped"
    /\ UNCHANGED <<baseVars, notAsync, aq, anh, prom>>

NextAsync ==
    \/ \E a \in TaskActions : AsDispatch(a)
    \/ AsClone
    \/ AsDropHandle
    \/ \E id \in 1..MaxAsync : AsDropPromise(id)
    \/ \E r \in Results : AsRun(r)
    \/ AsStop

SpecAsync == InitZero /\ [][NextAsync]_vars

\* The thread pool made by spawn_thread runs the task whenever it can take a
\* step.
FairSpecAsync ==
    SpecAsync /\ WF_vars(\E r \in Results : AsRun(r)) /\ WF_vars(AsStop)

----------------------------------------------------------------------------
(* std::sync::mpsc::Sender as a reactor: impl Reactor<S> for Sender<S> *)

\* SendError(state): the error of Sender::send, which gives the value back
SendError(v) == Err(v)

\* A sender that reports success although the Receiver is gone.
SenderReactSilent(q, alive, s) ==
    [q |-> IF alive THEN Append(q, s) ELSE q, out |-> Ok]

\* Sender::react: self.send(state.clone()). The clone is queued while the
\* Receiver is alive; once it is dropped, send returns the value in a
\* SendError.
SenderReact(q, alive, s) ==
    IF alive THEN [q |-> Append(q, s), out |-> Ok]
    ELSE [q |-> q, out |-> SendError(s)]

\* store.dispatch(a) on a Store whose reactor is the Sender.
MpscDispatch(a) ==
    /\ Len(acts) < MaxSend
    /\ LET snd == SenderReact(chq, rxalive, Reduce(state, a))
           d == StoreDispatch(state, calls, a, snd.out)
       IN  /\ state' = d.state
           /\ calls' = d.calls
           /\ outs' = Append(outs, d.out)
           /\ ret' = d.ret
           /\ chq' = snd.q
    /\ acts' = Append(acts, Item(Len(acts) + 1, a))
    /\ UNCHANGED <<s0, chanVars, subVars, fanVars, notMpsc, rxalive, recvd>>

\* rx.recv() / rx.iter().next()
MpscRecv ==
    /\ rxalive
    /\ chq # <<>>
    /\ recvd' = Append(recvd, Head(chq))
    /\ chq' = Tail(chq)
    /\ UNCHANGED <<baseVars, notMpsc, rxalive>>

\* drop(rx): the channel hangs up and what was queued is discarded.
MpscDropReceiver ==
    /\ rxalive
    /\ rxalive' = FALSE
    /\ chq' = <<>>
    /\ UNCHANGED <<baseVars, notMpsc, recvd>>

NextMpsc ==
    \/ \E a \in Actions : MpscDispatch(a)
    \/ MpscRecv
    \/ MpscDropReceiver

SpecMpsc == InitZero /\ [][NextMpsc]_vars

----------------------------------------------------------------------------
(* The task with a reactor whose sink may be pending or fail at any method: *)
(* rx.map(Ok).forward(store). The task model above is the case of a reactor *)
(* whose sink is always ready and whose flush and close always succeed;     *)
(* here the producers are reduced to the actions they feed to the channel.  *)

\* what the actions of the Forward future leave alone
fwdRest == <<s0, ret, hs, nmsg, parkedq, single, rh, cret, subVars, fanVars, polled, notSink>>

\* A Forward that sends the buffered item although the sink was not ready.
ForwardAfterReadySends(p) == IF p = Pending THEN "parked_ready" ELSE "send"

\* Forward::poll with a buffered item: ready!(sink.poll_ready(cx))?. Pending
\* suspends the task, an error ends it, and only after Ready(Ok(())) is
\* start_send called.
ForwardAfterReady(p) ==
    IF p = Pending THEN "parked_ready"
    ELSE IF p.ok THEN "send"
    ELSE "done"

\* A Forward that completes with Ok(()) whatever the close returned.
ForwardOutputOk(p) == Ok

\* Forward::poll at the end of the stream: ready!(sink.poll_close(cx))?;
\* return Ready(Ok(())): the output is the error of the close, if any.
ForwardOutput(p) == p

\* A producer's dispatch puts an action in the channel.
FwdFeed(a) ==
    /\ open
    /\ tpc # "done"
    /\ Len(rets) < MaxDispatch
    /\ rets' = Append(rets, Ret(1, "Ok"))
    /\ mq' = Append(mq, Item(Len(rets) + 1, a))
    /\ UNCHANGED <<fwdRest, state, calls, outs, acts, open, tpc, buffered, result, rops>>

\* The last handle is dropped or closed: the channel is closed.
FwdEnd ==
    /\ open
    /\ open' = FALSE
    /\ UNCHANGED <<fwdRest, state, calls, outs, acts, rets, mq, tpc, buffered, result, rops>>

\* stream.poll_next: an item is buffered; at the end of the stream the sink
\* is to be closed; with nothing to take the sink is to be flushed. A task
\* suspended on the stream polls it again when there is something to see.
FwdRecv ==
    /\ tpc \in {"recv", "wait"}
    /\ LET nxt == RecvNext(mq, open, Len(mq))
       IN  /\ tpc = "wait" => nxt # "pending"
           /\ IF nxt = "item"
              THEN buffered' = Head(mq) /\ mq' = Tail(mq) /\ tpc' = "ready"
              ELSE /\ UNCHANGED <<buffered, mq>>
                   /\ tpc' = IF nxt = "end" THEN "close" ELSE "flush"
    /\ UNCHANGED <<fwdRest, state, calls, outs, acts, rets, open, result, rops>>

\* Store::poll_ready: the reactor's sink returns p.
FwdPollReady(p) ==
    /\ tpc = "ready"
    /\ rops' = IF p = Pending THEN rops
               ELSE Append(rops, [op |-> "poll_ready", res |-> p])
    /\ tpc' = ForwardAfterReady(StorePoll(p))
    /\ result' = IF tpc' = "done" THEN StorePoll(p) ELSE result
    /\ UNCHANGED <<fwdRest, state, calls, outs, acts, rets, mq, open, buffered>>

\* Store::start_send(buffered_item): reduce, then the reactor's start_send,
\* which returns r.
FwdStartSend(r) ==
    /\ tpc = "send"
    /\ LET d == StoreStartSend(state, calls, buffered.a, r)
       IN  /\ state' = d.state
           /\ calls' = d.calls
           /\ outs' = Append(outs, d.out)
           /\ rops' = Append(rops, [op |-> "start_send", res |-> d.out])
           /\ tpc' = ForwardAfterSend(d.out)
           /\ result' = IF d.out.ok THEN result ELSE d.out
    /\ acts' = Append(acts, buffered)
    /\ buffered' = None
    /\ UNCHANGED <<fwdRest, rets, mq, open>>

\* Store::poll_flush while the stream is pending: the task is suspended
\* unless the flush fails.
FwdPollFlush(p) ==
    /\ tpc = "flush"
    /\ rops' = IF p = Pending THEN rops
               ELSE Append(rops, [op |-> "poll_flush", res |-> p])
    /\ IF p = Pending \/ StorePoll(p).ok
       THEN tpc' = "wait" /\ result' = result
       ELSE tpc' = "done" /\ result' = StorePoll(p)
    /\ UNCHANGED <<fwdRest, state, calls, outs, acts, rets, mq, open, buffered>>

\* Store::poll_close at the end of the stream: the future completes with
\* what the close returned.
FwdPollClose(p) ==
    /\ tpc = "close"
    /\ rops' = IF p = Pending THEN rops
               ELSE Append(rops, [op |-> "poll_close", res |-> p])
    /\ IF p = Pending
       THEN tpc' = "parked_close" /\ result' = result
       ELSE tpc' = "done" /\ result' = ForwardOutput(StorePoll(p))
    /\ UNCHANGED <<fwdRest, state, calls, outs, acts, rets, mq, open, buffered>>

\* The reactor's sink wakes the task, which polls it again.
FwdWake ==
    /\ tpc \in {"parked_ready", "parked_close"}
    /\ tpc' = IF tpc = "parked_ready" THEN "ready" ELSE "close"
    /\ UNCHANGED <<fwdRest, state, calls, outs, acts, rets, mq, open, buffered, result, rops>>

NextForward ==
    \/ \E a \in TaskActions : FwdFeed(a)
    \/ FwdEnd
    \/ FwdRecv
    \/ \E p \in Polls : FwdPollReady(p)
    \/ \E r \in Results : FwdStartSend(r)
    \/ \E p \in Polls : FwdPollFlush(p)
    \/ \E p \in Polls : FwdPollClose(p)
    \/ FwdWake

InitForward == Init /\ single

SpecForward == InitForward /\ [][NextForward]_vars

----------------------------------------------------------------------------
(* An Option as the subscriber: impl Subscriber<R> for Option<T> *)

\* An Option that forwards the event and swallows the result.
OptionNotifySwallows(o, cs, s, r) ==
    IF o = "Some" THEN [calls |-> Append(cs, s), out |-> Ok, called |-> TRUE]
    ELSE [calls |-> cs, out |-> Ok, called |-> FALSE]

\* Option::notify: if let Some(subscriber) = self { subscriber.notify(state)?; }
\* Ok(()): the inner subscriber, which returns r, is called only if there is
\* one.
OptionNotify(o, cs, s, r) ==
    IF o = "Some"
    THEN [calls |-> React(cs, s, r).calls, out |-> React(cs, s, r).out, called |-> TRUE]
    ELSE [calls |-> cs, out |-> Ok, called |-> FALSE]

\* store.dispatch(a) on a Store whose subscriber is the Option: reduce, then
\* notify. outs records what the inner subscriber returned when it was called.
OptDispatch(a, r) ==
    /\ Len(acts) < MaxSteps
    /\ LET s2 == Reduce(state, a)
           n == OptionNotify(opt, calls, s2, r)
       IN  /\ state' = s2
           /\ calls' = n.calls
           /\ outs' = IF n.called THEN Append(outs, r) ELSE outs
           /\ ret' = n.out
    /\ acts' = Append(acts, Item(Len(acts) + 1, a))
    /\ UNCHANGED <<s0, chanVars, subVars, fanVars, notOption, opt>>

\* store.subscribe(Some(subscriber)) or store.subscribe(None): the
\* subscriber is replaced and the previous one returned.
OptSubscribe(new) ==
    /\ new # opt
    /\ opt' = new
    /\ ret' = [prev |-> opt]
    /\ UNCHANGED <<s0, state, calls, outs, acts, chanVars, subVars, fanVars, notOption>>

NextOption ==
    \/ \E a \in TaskActions, r \in Results : OptDispatch(a, r)
    \/ \E new \in {"None", "Some"} : OptSubscribe(new)

SpecOption == InitZero /\ [][NextOption]_vars

----------------------------------------------------------------------------
(* Helpers for the properties *)

Last(s) == s[Len(s)]

RECURSIVE FoldReduce(_, _)
\* reduce folded left-to-right over a sequence of actions
FoldReduce(s, as) ==
    IF as = <<>> THEN s
    ELSE Reduce(FoldReduce(s, SubSeq(as, 1, Len(as) - 1)), Last(as))

AllOk(rs) == \A i \in 1..Len(rs) : rs[i].ok

\* the actions of a sequence of items
ActionsOf(items) == [i \in 1..Len(items) |-> items[i].a]

----------------------------------------------------------------------------
(* The synchronous Store: properties *)

\* C1: every Store::dispatch(a) calls the reactor exactly once, with
\* reduce(state, a) (the post-transition state, never the state before the
\* call), and returns exactly what the reactor returned.
C1_DispatchReactsOnceWithNewState ==
    [][acts' # acts =>
        /\ Len(acts') = Len(acts) + 1
        /\ calls' = Append(calls, Reduce(state, Last(acts').a))
        /\ Len(outs') = Len(outs) + 1
        /\ SubSeq(outs', 1, Len(outs)) = outs
        /\ ret' = Last(outs')]_vars

\* A dispatch whose reactor failed with error 2 saw the new state.
C1_Witness ==
    /\ Len(acts) >= 2
    /\ ret = Err(2)
    /\ Last(calls) = state
    /\ state # s0
    /\ Len(calls) = Len(acts)

\* C2: when the reactor fails, the state has been updated all the same: after
\* the failed dispatch the state is reduce(previous state, action).
C2_StateUpdatedOnReactorError ==
    [][(acts' # acts /\ ~ret'.ok) => state' = Reduce(state, Last(acts').a)]_vars

\* A failed dispatch that changed the state.
C2_Witness ==
    /\ ActionsOf(acts) = <<Add(5)>>
    /\ ret = Err(1)
    /\ state = s0 + 5

\* C3: with a reactor that always succeeds, the reactor records one state per
\* action, the i-th being reduce folded over the first i actions from the
\* initial state; from 0, [+5, *3, -1, /7] records [5, 15, 14, 2].
C3_RecordedStatesAreFoldPrefixes ==
    AllOk(outs) =>
        /\ Len(calls) = Len(acts)
        /\ \A i \in 1..Len(acts) : calls[i] = FoldReduce(s0, SubSeq(ActionsOf(acts), 1, i))
        /\ (s0 = 0 /\ ActionsOf(acts) = <<Add(5), Mul(3), Sub(1), Div(7)>>)
              => calls = <<5, 15, 14, 2>>

\* The example scenario has run to its end.
C3_Witness ==
    /\ s0 = 0
    /\ ActionsOf(acts) = <<Add(5), Mul(3), Sub(1), Div(7)>>
    /\ AllOk(outs)
    /\ Len(calls) = 4

----------------------------------------------------------------------------
(* The Store as a task: properties *)

IsErr(x) == x # None /\ x # Ok

\* the dispatch calls whose action the Store has reduced
AppliedIds == {acts[i].id : i \in 1..Len(acts)}

\* the dispatch calls that returned v
Returned(v) == {id \in 1..Len(rets) : rets[id].v = v}

Front(s) == SubSeq(s, 1, Len(s) - 1)

\* In this step a dispatch call returns v that began when the task had
\* already completed or been dropped.
ReturnsAfterStop(v) ==
    \/ \E h \in Handles :
          /\ hs[h].pc # "idle"
          /\ hs'[h].pc = "idle"
          /\ hs[h].call.at \in {"done", "dropped"}
          /\ rets'[hs[h].call.id].v = v
    \/ /\ Len(rets') = Len(rets) + 1
       /\ Phase \in {"done", "dropped"}
       /\ Last(rets').v = v

\* In this step the dispatch call number id returns Terminated.
ReturnsTerminated(id) ==
    /\ id \in 1..Len(rets')
    /\ rets'[id].v = "Terminated"
    /\ id \in 1..Len(rets) => rets[id].v # "Terminated"

\* C4: with a single producer using one handle, or its clones one after
\* another, the Store reduces the actions in the order they were sent, none
\* twice, none that was accepted skipped, and the reactor sees exactly the
\* left-fold prefixes of reduce over them.
C4_SingleProducerSendOrder ==
    single =>
        /\ \A i, j \in 1..Len(acts) : i < j => acts[i].id < acts[j].id
        /\ \A i \in 1..Len(acts) : \A id \in 1..(acts[i].id - 1) :
              rets[id].v = "Ok" => id \in AppliedIds
        /\ Len(calls) = Len(acts)
        /\ \A i \in 1..Len(acts) : calls[i] = FoldReduce(s0, SubSeq(ActionsOf(acts), 1, i))

\* One producer sent +5 through the first handle and *3 through its clone.
C4_Witness ==
    /\ single
    /\ Len(rets) = 2
    /\ rets[1].h # rets[2].h
    /\ ActionsOf(acts) = <<Add(5), Mul(3)>>
    /\ calls = <<5, 15>>

\* C5: the task completes with Ok(()) only when no reactor call failed, every
\* handle is dropped or closed and every action a dispatch call enqueued has
\* been reduced; and once every handle is gone the task is never left
\* waiting: it has an item to take or the end of the stream to see.
C5_GracefulShutdownDrains ==
    /\ result = Ok =>
          /\ AllOk(outs)
          /\ \A h \in Handles : hs[h].st # "open"
          /\ Returned("pending") = {}
          /\ Returned("Ok") \subseteq AppliedIds
          /\ mq = <<>> /\ buffered = None
    /\ (tpc = "recv" /\ \A h \in Handles : hs[h].st # "open") =>
          RecvNext(mq, open, nmsg) # "pending"

\* Two actions were enqueued, every handle went away, and the task completed.
C5_Witness ==
    /\ result = Ok
    /\ Returned("Ok") = {1, 2}
    /\ Len(acts) = 2
    /\ \E h \in Handles : hs[h].st = "closed"
    /\ \E h \in Handles : hs[h].st = "dropped"

\* C6: once a reactor call has failed, nothing more is reduced or shown to the
\* reactor, the state stays the one the failing action produced, and every
\* dispatch call begun afterwards returns Terminated.
C6_FailureDropsMailbox ==
    [][IsErr(result) =>
          /\ acts' = acts /\ calls' = calls /\ state' = state
          /\ ~ReturnsAfterStop("Ok")
          /\ ~ReturnsAfterStop("Panicked")]_vars

\* C7: a failing reactor call ends the task at once: the task's result is the
\* error of that call, which is the last call the reactor received and the
\* only one that failed; a task that failed no reactor call has no error.
C7_TaskResultIsFirstReactorError ==
    /\ ~AllOk(outs) =>
          /\ result = Last(outs)
          /\ AllOk(Front(outs))
          /\ tpc \in {"done", "dropped"}
    /\ IsErr(result) => (outs # <<>> /\ result = Last(outs))

\* The second reactor call failed with error 2 and the task returned it.
C7_Witness ==
    /\ result = Err(2)
    /\ Len(outs) = 2
    /\ outs[1] = Ok
    /\ tpc = "done"

\* C8: a dispatch call begun after the task completed or was dropped returns
\* Terminated: it neither returns Ok(()) nor ends in any other way.
C8_DispatchAfterTerminationFails ==
    [][~ReturnsAfterStop("Ok") /\ ~ReturnsAfterStop("Panicked")]_vars

Stopped == result # None \/ tpc = "dropped"

\* the dispatch calls whose action waits in the channel
QueuedIds == {mq[i].id : i \in 1..Len(mq)}

\* the dispatch call whose action the task holds, taken and not yet reduced
TakenIds == IF buffered = None THEN {} ELSE {buffered.id}

\* In this step the dispatch call number id returns Ok(()).
ReturnsOk(id) ==
    /\ id \in 1..Len(rets)
    /\ rets[id].v = "pending"
    /\ rets'[id].v = "Ok"

\* C11: a dispatch through a handle returns Ok(()) or Terminated and nothing
\* else, and the call that delivered an action whose notification failed
\* returned Ok(()) if it returned.
C11_HandlesReturnOkOrTerminated ==
    /\ \A id \in 1..Len(rets) : rets[id].v \in {"pending", "Ok", "Terminated"}
    /\ \A i \in 1..Len(acts) : ~outs[i].ok => rets[acts[i].id].v \in {"pending", "Ok"}

\* C12: with a reactor that never fails, whatever the interleaving of the
\* producers, no action is reduced twice, only dispatched actions are
\* reduced, and the task completes with Ok(()) only when every clone is gone,
\* no call is pending and exactly the actions whose dispatch returned Ok(())
\* have been reduced; and once every clone is gone the task, if polled, does
\* complete (unless it is cancelled).
C12_ProducersAllAppliedOnce ==
    /\ [](AllOk(outs) =>
            /\ \A i, j \in 1..Len(acts) : i # j => acts[i].id # acts[j].id
            /\ AppliedIds \subseteq 1..Len(rets)
            /\ result = Ok =>
                  /\ \A h \in Handles : hs[h].st # "open"
                  /\ Returned("pending") = {}
                  /\ AppliedIds = Returned("Ok"))
    /\ ((\A h \in Handles : hs[h].st # "open") ~>
            (result = Ok \/ ~AllOk(outs) \/ tpc = "dropped"))

\* Two producers sent through their own clones at the same time, the task
\* reduced the second call's action first, and completed.
C12_Witness ==
    /\ ~single
    /\ result = Ok
    /\ Len(acts) = 2
    /\ acts[1].id = 2
    /\ rets[1].h # rets[2].h
    /\ Returned("Ok") = {1, 2}
    /\ \A h \in Handles : hs[h].st = "dropped"

\* C13 as stated: a dispatch has returned Ok(()) only if the task has taken
\* its action out of the channel.
C13_OkOnlyAfterTaken ==
    Returned("Ok") \subseteq (AppliedIds \cup TakenIds)

\* C13, amended: with one producer, a dispatch that returns Ok(()) while the
\* task's receiver is alive has had its action taken out of the channel by
\* the task.
C13_SingleProducerOkAfterTaken ==
    [][\A id \in 1..MaxDispatch :
          (single /\ tpc # "dropped" /\ ReturnsOk(id)) =>
              (id \notin QueuedIds /\ id \in (AppliedIds \cup TakenIds))]_vars

\* The producer's dispatch has returned Ok(()), its action being held by the
\* task and not reduced yet.
C13_Witness ==
    /\ single
    /\ tpc = "send"
    /\ Returned("Ok") = {1}
    /\ TakenIds = {1}
    /\ acts = <<>>

\* C14: once the task has completed or been dropped, the state, the calls the
\* reactor received and their results, the reduced actions and the task's
\* result never change, and the task does not run again.
C14_NoTransitionAfterTermination ==
    [][Stopped =>
          /\ state' = state /\ calls' = calls /\ outs' = outs /\ acts' = acts
          /\ result' = result
          /\ tpc' \in {"done", "dropped"}]_vars

\* After a failed notification ended the task, a producer dispatched again:
\* the call was refused and the reactor was not called again.
C14_Witness ==
    /\ IsErr(result)
    /\ tpc = "dropped"
    /\ Len(calls) = 1
    /\ Len(rets) = 2
    /\ rets[2].v = "Terminated"

\* C15: once the completion handle was dropped without forget and the task
\* has stopped, the task has no error, nothing more is reduced or shown to
\* the reactor, and every later dispatch call returns Terminated.
C15_DroppedHandleCancels ==
    [][(rh = "dropped" /\ tpc = "dropped") =>
          /\ result = None /\ result' = None
          /\ acts' = acts /\ calls' = calls /\ state' = state
          /\ \A id \in 1..Len(rets') :
                (id > Len(rets) \/ rets[id].v = "pending") =>
                    rets'[id].v \in {"pending", "Terminated"}]_vars

\* C16: a task whose completion handle is held or was forgotten stops only
\* by completing: with Ok(()) when no handle is open any more, or with the
\* error of a reactor call.
C16_ForgottenHandleKeepsTask ==
    (rh \in {"held", "forgotten"} /\ tpc \in {"done", "dropped"}) =>
        /\ result # None
        /\ result = Ok => \A h \in Handles : hs[h].st # "open"
        /\ IsErr(result) => (outs # <<>> /\ result = Last(outs))

\* The handle was forgotten, the task went on to reduce two actions and
\* completed when the last dispatcher was gone.
C16_Witness ==
    /\ rh = "forgotten"
    /\ result = Ok
    /\ Len(acts) = 2
    /\ tpc = "dropped"

\* C17: the state, the reactor's calls and the reduced actions change only in
\* a step of the task that holds one dequeued action, which reduces it and
\* notifies the reactor once, and no handle changes in that step; the task
\* dequeues an action only when it holds none and every reduced action has
\* had its notification answered.
C17_OneActionAtATime ==
    [][/\ (state' # state \/ calls' # calls \/ acts' # acts) =>
             /\ tpc = "send" /\ buffered # None
             /\ acts' = Append(acts, buffered)
             /\ state' = Reduce(state, buffered.a)
             /\ calls' = Append(calls, state')
             /\ Len(outs') = Len(acts')
             /\ hs' = hs /\ rets' = rets
       /\ (buffered' # None /\ buffered' # buffered) =>
             /\ buffered = None /\ tpc = "recv"
             /\ Len(calls) = Len(acts) /\ Len(outs) = Len(acts)]_vars

\* Two producers have a dispatch in progress while the task processes one
\* action and the other one waits in the channel.
C17_Witness ==
    /\ ~single
    /\ \A h \in {1, 2} : hs[h].pc = "flush"
    /\ tpc = "send"
    /\ Len(mq) = 1
    /\ buffered # None

----------------------------------------------------------------------------
(* Store::subscribe: properties *)

\* C18: subscribe returns the reactor installed before the call, installs the
\* new one and changes neither the state nor any reactor's calls; a dispatch
\* notifies the installed reactor and no other, with the state that results
\* from every action dispatched so far.
C18_SubscribeSwapsReactor ==
    [][/\ subret' # subret =>
             /\ subret' = Append(subret, reactor)
             /\ reactor' # reactor
             /\ state' = state /\ calls' = calls /\ notified' = notified
             /\ acts' = acts
       /\ acts' # acts =>
             /\ notified' = Append(notified, reactor)
             /\ reactor' = reactor
             /\ Len(calls') = Len(calls) + 1
             /\ Last(calls') = FoldReduce(s0, ActionsOf(acts'))]_vars

\* The first reactor saw +5 and was returned by subscribe; the second one saw
\* the state after +5 and *3.
C18_Witness ==
    /\ s0 = 0
    /\ subret = <<1>>
    /\ reactor = 2
    /\ notified = <<1, 2>>
    /\ calls = <<5, 15>>

----------------------------------------------------------------------------
(* Composite reactors: properties *)

\* the first member that fails (0 when none does)
FirstErr(ms) ==
    IF \E i \in 1..Len(ms) : ~ms[i].ok
    THEN CHOOSE i \in 1..Len(ms) : ~ms[i].ok /\ \A j \in 1..(i - 1) : ms[j].ok
    ELSE 0

\* C19: a react call on a composite invokes its members in registration
\* order, each at most once and with the state it was given; when it
\* returns, members 1..k have been invoked exactly once and the others not
\* at all, k being the first member that fails (all of them when none does).
C19_FanOutShortCircuit ==
    /\ \A i \in 1..Len(invoked) : invoked[i] = i
    /\ calls = [i \in 1..Len(invoked) |-> state]
    /\ FirstErr(members) # 0 => Len(invoked) <= FirstErr(members)
    /\ fret # None =>
          Len(invoked) = IF FirstErr(members) = 0 THEN Len(members) ELSE FirstErr(members)

\* The second of three members failed: the third one was not invoked.
C19_Witness ==
    /\ Len(members) = 3
    /\ members[1].ok /\ ~members[2].ok /\ members[3].ok
    /\ fret # None
    /\ invoked = <<1, 2>>

\* C20: the composite returns Ok(()) exactly when every member returns Ok,
\* and otherwise the error of the first member that fails.
C20_CompositeReturnsFirstError ==
    fret # None =>
        /\ fret = Ok <=> AllOk(members)
        /\ ~AllOk(members) => fret = members[FirstErr(members)]

\* The second member failed with error 2 and the third would have failed
\* with error 1: the composite returned error 2.
C20_Witness ==
    /\ members = <<Ok, Err(2), Err(1)>>
    /\ fret = Err(2)

----------------------------------------------------------------------------
(* The copy-on-write reducers: properties *)

\* In this step the copy-on-write reducer reduces an action.
CowReduces == Len(heap'[arc'].calls) = Len(heap[arc].calls) + 1

\* In this step the wrapped value is cloned.
CowClones == heap'[arc'].gen = heap[arc].gen + 1

C22_SnapshotKeepsValue ==
    \A i \in 1..Len(snaps) : snaps[i].live => heap[snaps[i].at] = snaps[i].seen

\* A clone taken after one action still sees that one action, the original
\* having reduced two more.
C22_Witness ==
    /\ Len(snaps) = 1
    /\ snaps[1].live
    /\ Len(snaps[1].seen.calls) = 1
    /\ Len(heap[arc].calls) = 3
    /\ snaps[1].at # arc

\* C23: the wrapped value has been cloned at most once per clone taken of
\* the Arc / Rc; a reduce that clones leaves the adapter the only strong
\* owner of the new value, and a reduce clones only when a live clone holds
\* the current allocation, never because of a clone of an older value.
C23_CloneOncePerSnapshot ==
    /\ [](heap[arc].gen <= Len(snaps))
    /\ [][CowReduces =>
             /\ CowClones => Strong(arc', snaps', arc') = 1
             /\ CowClones => \E i \in 1..Len(snaps) : snaps[i].live /\ snaps[i].at = arc
             /\ (\A i \in 1..Len(snaps) : snaps[i].live => snaps[i].at # arc) =>
                   heap'[arc'].gen = heap[arc].gen]_vars

\* With the clone of the first value still alive, the second and the third
\* reduce left the generation at 1.
C23_Witness ==
    /\ Len(snaps) = 1
    /\ snaps[1].live
    /\ snaps[1].seen.calls = <<>>
    /\ Len(heap[arc].calls) = 3
    /\ heap[arc].gen = 1

----------------------------------------------------------------------------
(* The Store as a sink of actions: properties *)

\* In this step a Sink method is called on the Store.
SinkCalled == Len(rops') = Len(rops) + 1

\* The reactor's sink has been closed.
SinkClosed == \E i \in 1..Len(rops) : rops[i] = [op |-> "poll_close", res |-> Ok]

\* C24 as stated: the Store is always ready, accepting an item reduces and
\* calls the reactor once with the new state, a flush does nothing and
\* succeeds, and after a close no further item is accepted.
C24_StoreSinkAlwaysReady ==
    [][SinkCalled =>
          /\ polled'.op = "poll_ready" => polled'.res = Ok
          /\ polled'.op = "start_send" =>
                /\ state' = Reduce(state, Last(acts').a)
                /\ calls' = Append(calls, state')
                /\ ~SinkClosed
          /\ polled'.op = "poll_flush" => polled'.res = Ok]_vars

\* C24 (amended): every Sink method of the Store calls the same method of
\* the reactor's sink exactly once and returns what it returns; start_send
\* first reduces the action and hands the reactor the new state; the other
\* methods leave the state alone.
C24_StoreSinkDelegates ==
    [][SinkCalled =>
          /\ polled' = Last(rops')
          /\ IF polled'.op = "start_send"
               THEN /\ state' = Reduce(state, Last(acts').a)
                    /\ calls' = Append(calls, state')
                    /\ polled'.res = Last(outs')
               ELSE /\ state' = state
                    /\ calls' = calls]_vars

\* The reactor's sink was not ready at first, then took an item, and its
\* flush failed.
C24_Witness ==
    /\ Len(rops) = 4
    /\ rops[1] = [op |-> "poll_ready", res |-> Pending]
    /\ rops[2] = [op |-> "poll_ready", res |-> Ok]
    /\ rops[3] = [op |-> "start_send", res |-> Ok]
    /\ polled = [op |-> "poll_flush", res |-> Err(1)]
    /\ calls = <<5>>

----------------------------------------------------------------------------
(* A reactor adapted from a sink: properties *)

\* the index in sunk of the item made from state s, 0 if there is none
SunkAt(s) ==
    IF \E i \in 1..Len(sunk) : sunk[i] = With(withf, s)
    THEN CHOOSE i \in 1..Len(sunk) : sunk[i] = With(withf, s)
    ELSE 0

\* the react calls begun so far
ReactCalls == Len(rret) + (IF rpc = "idle" THEN 0 ELSE 1)

\* C25 as stated: every react call that has returned handed exactly one
\* item, with(state), to the sink, in call order, and returned the sink's
\* result.
C25_ReactHandsExactlyOneItem ==
    /\ \A j \in 1..Len(rret) : SunkAt(rret[j].arg) # 0
    /\ \A i, j \in 1..Len(rret) :
          i < j => SunkAt(rret[i].arg) < SunkAt(rret[j].arg)

\* C25 (amended): every item the sink is handed is with(state) of a react
\* call, at most one per call and in call order; a call hands none only when
\* the sink fails when polled for readiness; a call that returns Ok(()) has
\* had its item accepted and flushed; and react returns what the sink
\* returned last.
C25_ReactSendsThroughSink ==
    /\ [](/\ Len(sunk) <= ReactCalls
          /\ \A i \in 1..Len(sunk) :
                \E s \in 1..ReactCalls : sunk[i] = With(withf, s) /\ SunkAt(s) = i
          /\ \A i, j \in 1..Len(sunk) :
                i < j => \A s, t \in 1..ReactCalls :
                    (sunk[i] = With(withf, s) /\ sunk[j] = With(withf, t)) => s < t
          /\ \A j \in 1..Len(rret) :
                /\ rret[j].arg = j
                /\ rret[j].res.ok =>
                      (SunkAt(j) # 0 /\ SunkAt(j) <= flushed)
                /\ SunkAt(j) = 0 => ~rret[j].res.ok)
    /\ [][Len(rret') = Len(rret) + 1 =>
             /\ Last(rret').res = slast'
             /\ (SunkAt(rarg)' = 0) => rpc = "ready"]_vars

\* Through from_sink_with, the first call failed after its item was handed,
\* the second succeeded, and the third failed when the sink was polled for
\* readiness, handing nothing.
C25_Witness ==
    /\ withf = "to_string"
    /\ Len(rret) = 3
    /\ rret[1].res = Err(2)
    /\ rret[2].res = Ok
    /\ rret[3].res = Err(1)
    /\ sunk = <<"1", "2">>
    /\ flushed = 2

----------------------------------------------------------------------------
(* Composite reducers: properties *)

----------------------------------------------------------------------------
(* AsyncStore: properties *)

\* C27: a fulfilled promise holds what the reactor returned for the state
\* reached by reducing that call's action, and every action a dispatch call
\* has queued is eventually reduced, also when its promise was dropped or is
\* never looked at.
C27_PromiseFulfilledAndDelivered ==
    /\ [](\A id \in 1..Len(prom) :
            prom[id].st = "done" =>
                \E k \in 1..Len(acts) :
                    /\ acts[k].id = id
                    /\ prom[id].val = outs[k]
                    /\ calls[k] = FoldReduce(s0, SubSeq(ActionsOf(acts), 1, k)))
    /\ \A id \in 1..MaxAsync :
          (id <= Len(prom)) ~> (id \in AppliedIds)

\* The promise of the first call was dropped and its action reduced all the
\* same; the second promise holds the reactor's error for the second state.
C27_Witness ==
    /\ Len(prom) = 2
    /\ prom[1] = PromDropped
    /\ prom[2] = PromDone(Err(2))
    /\ AppliedIds = {1, 2}
    /\ Len(calls) = 2
    /\ calls[1] # calls[2]

\* C28: the loop of a spawned AsyncStore is never over while a handle is
\* alive, whatever the reactor returned; when it is over every queued action
\* has been reduced; and once the last handle is dropped it does end.
C28_LivesAsLongAsHandles ==
    /\ [](arun = "stopped" =>
            /\ anh = 0
            /\ aq = <<>>
            /\ AppliedIds = 1..Len(prom))
    /\ ((anh = 0) ~> (arun = "stopped"))

\* The reactor failed on the first action; the loop went on, reduced the
\* other two, and ended after the last handle was dropped.
C28_Witness ==
    /\ arun = "stopped"
    /\ Len(acts) = 3
    /\ ~outs[1].ok
    /\ anh = 0

----------------------------------------------------------------------------
(* std::sync::mpsc::Sender as a reactor: properties *)

\* the number of react calls that succeeded
SentOk == Cardinality({k \in 1..Len(outs) : outs[k].ok})

\* C29: the Receiver gets the states in the order of the react calls; a react
\* call fails exactly when the Receiver has been dropped, with a SendError
\* that carries the state it was given; and a dispatch that fails this way
\* has updated the state of the Store all the same.
C29_SenderReactorSendsOrFails ==
    /\ [](/\ recvd = SubSeq(calls, 1, Len(recvd))
          /\ Len(recvd) <= SentOk
          /\ rxalive => recvd \o chq = SubSeq(calls, 1, SentOk)
          /\ \A k \in 1..Len(outs) :
                /\ outs[k].ok <=> k <= SentOk
                /\ ~outs[k].ok => outs[k] = SendError(calls[k])
                /\ calls[k] = FoldReduce(s0, SubSeq(ActionsOf(acts), 1, k))
          /\ acts # <<>> => state = Last(calls))
    /\ [][acts' # acts =>
             /\ state' = Reduce(state, Last(acts').a)
             /\ ret' = IF rxalive THEN Ok ELSE SendError(state')]_vars

\* Two states were sent and received in order; the Receiver was dropped and
\* the third dispatch failed with the third state, which the Store kept.
C29_Witness ==
    /\ Len(calls) = 3
    /\ recvd = SubSeq(calls, 1, 2)
    /\ calls[1] # calls[2]
    /\ ~rxalive
    /\ ret = SendError(calls[3])
    /\ state = calls[3]
    /\ state # calls[2]

----------------------------------------------------------------------------
(* The Store as a task: the clones of the dispatcher *)

\* C30: while a clone of the dispatcher is open the channel stays open and
\* the task does not complete with Ok(()): dropping or closing a clone while
\* another is open does not close the channel, the task completes with Ok(())
\* only from a state with no open clone, and a dispatch through an open clone
\* ends with an error only when the task has been dropped.
C30_OpenCloneKeepsTaskRunning ==
    [][/\ (open /\ tpc' = tpc /\ \E h \in Handles : hs'[h].st = "open") => open'
       /\ (\E h \in Handles : hs'[h].st = "open") => result' # Ok
       /\ (result' = Ok /\ result # Ok) =>
             (~open /\ \A h \in Handles : hs[h].st # "open")
       /\ \A id \in 1..MaxDispatch :
             (/\ id \in 1..Len(rets')
              /\ rets'[id].v \in {"Terminated", "Panicked"}
              /\ id \in 1..Len(rets) => rets[id].v = "pending"
              /\ hs[rets'[id].h].st = "open") => tpc = "dropped"]_vars

\* One clone is gone, the task runs, and both the action sent through it and
\* the one sent through the clone that is still open have been accepted and
\* reduced.
C30_Witness ==
    /\ Phase = "running"
    /\ result = None
    /\ \E g, h \in Handles :
          /\ hs[g].st \in {"dropped", "closed"}
          /\ hs[h].st = "open"
          /\ Len(rets) = 2
          /\ rets[1] = Ret(g, "Ok")
          /\ rets[2] = Ret(h, "Ok")
    /\ AppliedIds = {1, 2}

----------------------------------------------------------------------------
(* The Store as a task: closing a handle *)

----------------------------------------------------------------------------
(* The Store as a task: dispatch calls return *)

\* C32: every dispatch call on a handle eventually ends (it returns Ok(()) or
\* Terminated, or panics where a second error meets the emptied SinkMapErr),
\* and once the task's future has been dropped no sender is left parked.
C32_DispatchEventuallyReturns ==
    /\ [](tpc = "dropped" => (parkedq = <<>> /\ \A h \in Handles : ~hs[h].ip))
    /\ \A id \in 1..MaxDispatch :
          (id \in 1..Len(rets) /\ rets[id].v = "pending") ~>
              (id \in 1..Len(rets) /\ rets[id].v # "pending")

\* A producer is parked, waiting in its flush, with its action in the
\* channel, and the task has just failed on the action before it.
C32_Witness ==
    /\ IsErr(result)
    /\ tpc = "done"
    /\ mq # <<>>
    /\ \E h \in Handles : hs[h].pc = "flush" /\ hs[h].ip /\ hs[h].mp

----------------------------------------------------------------------------
(* The Store as a task: the backlog in the channel *)

\* the handles created so far: the first one and its clones, dropped or not
Created == {h \in Handles : hs[h].st # "absent"}

\* C33: the actions accepted into the channel and not yet taken by the task
\* (those queued, and those counted by a sender that has not queued its
\* message yet) are never more than the buffer plus the handles created so
\* far.
C33_BacklogBoundedBySenders ==
    /\ Len(mq) <= Buffer + Cardinality(Created)
    /\ nmsg <= Buffer + Cardinality(Created)

\* Two producers each have an action waiting in the channel.
C33_Witness ==
    /\ Len(mq) = 2
    /\ Cardinality(Created) = 2
    /\ rets[mq[1].id].h # rets[mq[2].id].h
    /\ tpc = "recv"

----------------------------------------------------------------------------
(* The task with a reactor whose sink may fail at any method: properties *)

\* In this step the reactor's sink returns from method op with an error.
SinkFails(op) ==
    /\ Len(rops') = Len(rops) + 1
    /\ Last(rops').op = op
    /\ ~Last(rops').res.ok

\* C34: when the reactor's sink fails its readiness check, the task ends
\* with that error and the action it holds is not reduced: the state, and
\* what the reactor has been shown, stay those of the actions already
\* applied. At all times the state is the fold of the applied actions.
C34_ReadyErrorEndsTaskBeforeReduce ==
    /\ [](/\ state = FoldReduce(s0, ActionsOf(acts))
          /\ Len(calls) = Len(acts)
          /\ tpc \in {"ready", "parked_ready", "send"} => buffered # None)
    /\ [][SinkFails("poll_ready") =>
             /\ result' = Last(rops').res
             /\ tpc' = "done"
             /\ buffered # None /\ buffered.id \notin AppliedIds'
             /\ state' = state /\ acts' = acts /\ calls' = calls]_vars
    /\ [][tpc = "done" => (state' = state /\ acts' = acts /\ result' = result)]_vars

\* One action was applied; the sink then failed its readiness check for the
\* second, which the task held and did not reduce.
C34_Witness ==
    /\ tpc = "done"
    /\ result = Err(1)
    /\ Last(rops) = [op |-> "poll_ready", res |-> Err(1)]
    /\ Len(acts) = 1
    /\ buffered # None /\ buffered.id = 2
    /\ state = Reduce(s0, acts[1].a)

\* C35: the task closes the sink only at the end of the stream, when every
\* action fed has been applied; it completes with Ok(()) only when that
\* close succeeded, and with the error of the close when it failed.
C35_CloseOnGracefulShutdown ==
    /\ [](result = Ok =>
            /\ Last(rops) = [op |-> "poll_close", res |-> Ok]
            /\ AppliedIds = 1..Len(rets)
            /\ AllOk(outs))
    /\ [][(Len(rops') = Len(rops) + 1 /\ Last(rops').op = "poll_close") =>
             /\ result = None /\ ~open /\ mq = <<>> /\ buffered = None
             /\ AppliedIds = 1..Len(rets)
             /\ result' = Last(rops').res
             /\ tpc' = "done"]_vars

\* Two actions were applied without error, the stream ended, and the close
\* of the reactor's sink failed: the task completed with that error.
C35_Witness ==
    /\ tpc = "done"
    /\ result = Err(2)
    /\ Last(rops) = [op |-> "poll_close", res |-> Err(2)]
    /\ Len(acts) = 2
    /\ AllOk(outs)

----------------------------------------------------------------------------
(* The synchronous Store after a failed dispatch *)

\* C36: a failed dispatch leaves the Store usable: every dispatch made after
\* a reactor error reduces the state, calls the reactor with the new state
\* and returns what it returns, and the state is always the fold of every
\* action dispatched, those whose notification failed included.
C36_StoreUsableAfterFailure ==
    /\ [](state = FoldReduce(s0, ActionsOf(acts)))
    /\ [][(acts' # acts /\ ~AllOk(outs)) =>
             /\ state' = Reduce(state, Last(acts').a)
             /\ calls' = Append(calls, state')
             /\ outs' = Append(outs, ret')]_vars

\* The second dispatch failed; the third succeeded and changed the state.
C36_Witness ==
    /\ Len(acts) = 3
    /\ outs = <<Ok, Err(1), Ok>>
    /\ ret = Ok
    /\ calls[3] = state
    /\ calls[3] # calls[2]
    /\ calls[2] # calls[1]

----------------------------------------------------------------------------
(* An Option as the subscriber: properties *)

\* C37: every dispatch on a Store whose subscriber is an Option updates the
\* state; with None it notifies nothing and returns Ok(()); with
\* Some(subscriber) the subscriber is called once with the new state and
\* what it returns is returned.
C37_OptionSubscriber ==
    [][acts' # acts =>
          /\ state' = Reduce(state, Last(acts').a)
          /\ IF opt = "None"
             THEN ret' = Ok /\ calls' = calls /\ outs' = outs
             ELSE /\ calls' = Append(calls, state')
                  /\ Len(outs') = Len(outs) + 1
                  /\ ret' = Last(outs')]_vars

\* Two dispatches with no subscriber changed the state and returned Ok(());
\* a subscriber was then installed, and it failed on the third.
C37_Witness ==
    /\ opt = "Some"
    /\ Len(acts) = 3
    /\ calls = <<state>>
    /\ state # s0
    /\ outs = <<Err(2)>>
    /\ ret = Err(2)

====
